---- MODULE Spec2Model ----
(***************************************************************************)
(* Verification model of the private-stream page scripts.                  *)
(*                                                                         *)
(* The repository holds five page scripts that do the same job:            *)
(*   "script"    src/script.js                (IIFE, failover loop)        *)
(*   "part_000"  src/unnamed/part_000         (class PrivateStreamingApp)  *)
(*   "part_001"  src/unnamed/part_001         (IIFE, lenient failover)     *)
(*   "part_002a" src/unnamed/part_002 1-556   (IIFE, first script)         *)
(*   "part_002b" src/unnamed/part_002 558-    (global script + src/api.js) *)
(* One page runs one script: Init picks the variant and the page's         *)
(* environment (browser capability, token in the URL or not); every        *)
(* action is one handler, one timer callback or one continuation of an     *)
(* async function after an await, run to completion as the single          *)
(* JavaScript thread runs it.                                              *)
(*                                                                         *)
(* Environment assumptions: the DOM nodes the scripts look up exist, and   *)
(* the developer-tools probe of script.js (securityCheck) answers true.    *)
(***************************************************************************)
EXTENDS Integers, Sequences, FiniteSets, TLC

\* ------------------------------------------------------------- bounds
\* longest stream-link list the backend returns
MaxLinks == 3
\* chat messages that arrive beyond the transcript cap
MaxExtraMsgs == 3
\* largest viewer count the server reports
MaxCount == 2
\* viewer-count timers pending at a time
MaxPending == 2
\* failed play() calls the play button's click handler reports
MaxPlayErrors == 1

\* ---------------------------------------------------- program constants
\* validateToken retries while retryCount < 2
MaxRetry == 2
\* socket.io option reconnectionAttempts
reconnectionAttempts == 5
\* the chat transcript cap
ChatCap == 100

IIFE == {"script", "part_001", "part_002a"}
Variants == IIFE \cup {"part_000", "part_002b"}

VARIABLES
    variant,          \* which page script this page runs
    cap,              \* browser: "hlsjs" (Hls.isSupported()), "native" (canPlayType), "none"
    tokenInUrl,       \* whether the URL carries ?token=
    pc,               \* where initializeApp / validateTokenAndStart stands
    retryCount,       \* validateToken's retryCount
    backoffs,         \* validateToken's waits so far: [ms, after] (history)
    requests,         \* requests sent so far, by endpoint
    invalidAnswer,    \* text of the latest valid:false answer, "-" when none came
    nLinks,           \* length of the fetched link list (0 before the fetch)
    i,                \* loop index of loadStreamWithFailover / currentLinkIndex
    instances,        \* every Hls object created so far: [url, live]
    hls,              \* the script's hls variable: 0 is null, else an index of instances
    media,            \* what the video element holds: "none" | "loading" | "playing" | "error"
    currentM3uLink,   \* 0 is null, else the index (1-based) of the link
    listeners,        \* listeners the wait promises registered on the video element
    outcome,          \* how each attempted candidate's wait ended (history)
    errorMessage,     \* errorMessage.textContent
    showErrorCalls,   \* number of showError calls so far (history)
    sock,             \* state of the socket object: "none" | "connecting" | "connected" | "reconnecting" | "failed" | "closed"
    socket,           \* the script's socket variable: FALSE is null
    isConnected,      \* part_000: this.isConnected
    attempts,         \* reconnection attempts of the transport since the drop
    acked,            \* the server acknowledged the join on the current connection
    timers,           \* live heartbeat interval timers: [id, period]
    heartbeatInterval,\* part_000: this.heartbeatInterval (0 is null)
    hidden,           \* document.hidden
    lastEmit,         \* the latest message emitted on the socket (history)
    others,           \* states of the socket objects the script no longer holds
    openedBy,         \* what created the current socket: "none" | "init" | "online" (history)
    tornDown,         \* disconnect() was called (history)
    loads,            \* part_002b: every loadStream call so far, see NewLoad
    retryTimers,      \* part_002b: pending 2-second timers that call loadStreamWithFailover
    errorListeners,   \* part_002b: the video's 'error' listeners in the order added: 0 is
                      \* configureLivePlayer's monitor, k > 0 the {once} listener of load k
    attemptLog,       \* candidates in the order their load began (history)
    chat,             \* the chat transcript (arrival numbers), oldest first
    arrived,          \* chat messages that arrived so far
    apiCall,          \* the latest StreamingAPI call: [op, transport, result]
    displayed,        \* the number the viewer-count element shows
    lastCount,        \* count of the latest viewer-count event, -1 before the first (history)
    uiTimers,         \* pending 200 ms timers of updateViewerCount: the count each will write
    isPlaying,        \* part_001: the script's isPlaying flag
    playButton,       \* part_001: playButton.style.display ("" until the script sets it)
    paused,           \* the video element's paused attribute
    ready,            \* the video element has data to play on (readyState >= HAVE_FUTURE_DATA)
    failed,           \* the video element has an error
    playPromise,      \* the pending promise of a play() call: [by, ok], by = "none" when none
    playErrors,       \* times the click handler reported a failed play() (history)
    seek              \* the latest seek: [duration, liveSync, currentTime] after the 'seeking' listeners ran

playerVars == <<instances, hls, media, currentM3uLink, listeners, outcome>>
initVars == <<variant, cap, tokenInUrl, pc, backoffs, retryCount, requests, invalidAnswer, nLinks, i>>
uiVars == <<errorMessage, showErrorCalls>>
sockVars == <<sock, socket, isConnected, attempts, acked, timers,
              heartbeatInterval, hidden, lastEmit, openedBy, others, tornDown>>
liveVars == <<loads, retryTimers, errorListeners>>
chatVars == <<chat, arrived>>
apiVars == <<apiCall>>
viewerVars == <<displayed, lastCount, uiTimers>>
seekVars == <<seek>>
playVars == <<isPlaying, playButton, paused, ready, failed, playPromise, playErrors>>
sideVars == <<chatVars, apiVars, viewerVars, seekVars, playVars>>
vars == <<playerVars, initVars, uiVars, sockVars, liveVars, attemptLog, sideVars>>

\* ------------------------------------------------------------- texts
\* Error texts the backend may send with valid:false; "" is an answer
\* that carries neither error nor message.
BackendTexts == {"", "expired", "token fetch limit reached"}

\* String.prototype.includes('fetch') over the texts that occur.
IncludesFetch(msg) == msg \in {"Failed to fetch", "token fetch limit reached"}

\* data.error || data.message || <literal>, per variant
FallbackInvalid(v) ==
    CASE v \in {"script", "part_001"} -> "Token tidak valid atau sudah kedaluwarsa"
      [] v = "part_002a" -> "Token tidak valid"
      [] v = "part_000" -> "Token tidak valid."
      [] OTHER -> "Token tidak valid atau sudah digunakan di perangkat lain."

OrElse(text, fallback) == IF text = "" THEN fallback ELSE text


\* showError called once per message of msgs, in order
showErrors(msgs) ==
    /\ errorMessage' = IF msgs = <<>> THEN errorMessage ELSE msgs[Len(msgs)]
    /\ showErrorCalls' = showErrorCalls + Len(msgs)

\* the texts shown, each cut to its first words; their wording differs a
\* little from script to script and the model keeps one text per occasion
NoTokenMsg == "Token tidak ditemukan dalam URL"
NoHlsMsg == "Browser Anda tidak mendukung streaming HLS"
AllFailedMsg == "Semua stream gagal dimuat"
VideoErrorMsg == "Terjadi kesalahan saat memutar video"
MarkFailedMsg == "Gagal menandai token sebagai digunakan"
NoStreamMsg == "Tidak ada stream yang tersedia"
FetchFailedMsg == "Failed to fetch"
HttpErrorMsg == "HTTP 500"

\* the Hls ERROR handler's text for a fatal error of the given type
HlsFatalMsg(type) ==
    CASE type = "network" -> "Kesalahan jaringan"
      [] type = "media" -> "Kesalahan media"
      [] OTHER -> "Terjadi kesalahan saat memuat stream"

\* ------------------------------------------------------------ player
NewHls(url) == [url |-> url, live |-> TRUE, fatal |-> FALSE]

LiveInstances == {k \in 1..Len(instances) : instances[k].live}

\* a destroy that does nothing
hlsDestroySkipped(insts, h) == insts

\* if (hls) hls.destroy();
hlsDestroy(insts, h) ==
    IF h = 0 THEN insts ELSE [insts EXCEPT ![h].live = FALSE]

\* the video element once hls.destroy() detached it
Detached(insts, h, m) == IF h # 0 /\ insts[h].live THEN "none" ELSE m

\* an initHlsPlayer that leaves the instance held alive
initHlsPlayerKeepsOld(insts, h, m, url) ==
    IF variant = "part_002a" \/ cap = "hlsjs"
    THEN [instances |-> Append(insts, NewHls(url)), hls |-> Len(insts) + 1,
          media |-> "loading", errs |-> <<>>]
    ELSE [instances |-> insts, hls |-> h, media |-> m, errs |-> <<>>]

\* initHlsPlayer(m3uLink) of the IIFE scripts: the new values of instances,
\* hls and media, and the errors it shows.  part_002a constructs Hls without
\* asking Hls.isSupported().
initHlsPlayer(insts, h, m, url) ==
    LET prior == hlsDestroy(insts, h) IN
    IF variant = "part_002a" \/ cap = "hlsjs"
    THEN [instances |-> Append(prior, NewHls(url)), hls |-> Len(prior) + 1,
          media |-> "loading", errs |-> <<>>]
    ELSE IF cap = "native"
    THEN [instances |-> prior, hls |-> h, media |-> "loading", errs |-> <<>>]
    ELSE [instances |-> prior, hls |-> h, media |-> Detached(insts, h, m),
          errs |-> <<NoHlsMsg>>]

\* the listeners the wait promise of candidate k registers
WaitListeners(k) ==
    {[ev |-> e, cand |-> k] :
        e \in IF variant = "part_001" THEN {"playing", "canplay", "error"}
                                        ELSE {"playing", "error"}}

\* The listeners left after the video element dispatched event e.  script.js
\* and part_001: each invoked listener removes its candidate's listeners;
\* part_002a: {once: true} removes the invoked listeners only.
AfterDispatch(ls, e) ==
    LET invoked == {l \in ls : l.ev = e} IN
    IF variant = "part_002a" THEN ls \ invoked
    ELSE {l \in ls : l.cand \notin {x.cand : x \in invoked}}

\* ------------------------------------------------------------ socket
\* the id setInterval returns: one no live timer has and no variable holds
FreshTimer(ts, held) ==
    CHOOSE n \in 1..(Cardinality(ts) + 2) : n \notin {t.id : t \in ts} \cup {held}

\* setInterval(heartbeat, period)
setInterval(ts, held, period) ==
    ts \cup {[id |-> FreshTimer(ts, held), period |-> period]}

\* clearInterval(id)
clearInterval(ts, id) == {t \in ts : t.id # id}

\* a socket object in the given state leaves the variable that held it
dropSocket(held, state, dropped) ==
    IF held THEN dropped \cup {state} ELSE dropped

\* a new socket that replaces the one held without disconnecting it
replaceSocketKeepsOld(held, state, dropped) == dropSocket(held, state, dropped)

\* if (socket) socket.disconnect(); before socket = io(...)
replaceSocket(held, state, dropped) == dropSocket(held, "closed", dropped)

\* initSocket() of the IIFE scripts: socket = io(...) and an interval that
\* emits the heartbeat every 30 s; the interval's id is not kept
initSocket ==
    /\ sock' = "connecting"
    /\ socket' = TRUE
    /\ openedBy' = "init"
    /\ others' = replaceSocket(socket, sock, others)
    /\ attempts' = 0
    /\ acked' = FALSE
    /\ timers' = setInterval(timers, 0, 30000)
    /\ UNCHANGED <<isConnected, heartbeatInterval, hidden, lastEmit, tornDown>>

\* ------------------------------------------- IIFE: initializeApp steps
Sent(ep) == [requests EXCEPT ![ep] = @ + 1]

\* initializeApp up to the first await
InitializeApp ==
    /\ variant \in IIFE /\ pc = "start"
    /\ IF tokenInUrl
       THEN pc' = "validate" /\ requests' = Sent("validate") /\ UNCHANGED uiVars
       ELSE pc' = "error" /\ showErrors(<<NoTokenMsg>>) /\ UNCHANGED requests
    /\ UNCHANGED <<variant, cap, tokenInUrl, backoffs, retryCount, invalidAnswer, nLinks, i,
                   playerVars, sockVars, liveVars, attemptLog, sideVars>>

\* the error validateToken catches for an answer r
ValidateError(r) ==
    CASE r = "neterr" -> [name |-> "TypeError", message |-> FetchFailedMsg]
      [] r = "http" -> [name |-> "Error", message |-> HttpErrorMsg]
      [] OTHER -> [name |-> "TokenValidationError",
                   message |-> OrElse(r, FallbackInvalid(variant))]

\* setTimeout(resolve, 1000 * (retryCount + 1))
Backoff(count) == 1000 * (count + 1)

\* validateToken's catch: retry only "network errors"
ShouldRetry(error, count) ==
    /\ variant \in {"script", "part_001"}
    /\ count < MaxRetry
    /\ (error.name = "TypeError" \/ IncludesFetch(error.message))

\* the validate-token answer arrives: "valid", "neterr" (fetch rejects),
\* "http" (a non-2xx status; part_002a does not look at it and reads a body
\* without fields) or a text of BackendTexts sent with valid:false
ValidateTokenResponse(r) ==
    /\ variant \in IIFE /\ pc = "validate"
    /\ IF r = "valid"
       THEN /\ pc' = "mark" /\ requests' = Sent("mark")
            /\ UNCHANGED <<uiVars, invalidAnswer, backoffs>>
       ELSE LET error == IF variant = "part_002a" /\ r = "http"
                         THEN ValidateError("") ELSE ValidateError(r) IN
            /\ invalidAnswer' = IF r \in BackendTexts THEN r ELSE invalidAnswer
            /\ IF ShouldRetry(error, retryCount)
               THEN /\ pc' = "retry_wait" /\ UNCHANGED uiVars
                    /\ backoffs' = Append(backoffs, [ms |-> Backoff(retryCount), after |-> r])
               ELSE /\ pc' = "error" /\ showErrors(<<error.message>>)
                    /\ UNCHANGED backoffs
            /\ UNCHANGED requests
    /\ UNCHANGED <<variant, cap, tokenInUrl, retryCount, nLinks, i,
                   playerVars, sockVars, liveVars, attemptLog, sideVars>>

\* the backoff timer of validateToken fires: validateToken(token, retryCount + 1)
RetryTimer ==
    /\ variant \in IIFE /\ pc = "retry_wait"
    /\ retryCount' = retryCount + 1
    /\ pc' = "validate" /\ requests' = Sent("validate")
    /\ UNCHANGED <<variant, cap, tokenInUrl, backoffs, invalidAnswer, nLinks, i, uiVars,
                   playerVars, sockVars, liveVars, attemptLog, sideVars>>

\* the mark-token-used answer arrives
MarkTokenUsedResponse(r) ==
    /\ variant \in IIFE /\ pc = "mark"
    /\ CASE r = "ok" -> pc' = "links" /\ requests' = Sent("links") /\ UNCHANGED uiVars
         [] r = "refused" -> pc' = "error" /\ showErrors(<<MarkFailedMsg>>) /\ UNCHANGED requests
         [] OTHER -> pc' = "error" /\ showErrors(<<FetchFailedMsg>>) /\ UNCHANGED requests
    /\ UNCHANGED <<variant, cap, tokenInUrl, backoffs, retryCount, invalidAnswer, nLinks, i,
                   playerVars, sockVars, liveVars, attemptLog, sideVars>>


\* One pass of the loop body up to its await, for candidate k (0-based):
\* initHlsPlayer(link.url); currentM3uLink = link.url; the wait promise
\* registers its listeners.  ls: the listeners attached now, m: the media
\* state now, errs: what the running handler has shown already.
BeginWait(k, ls, m, errs) ==
    LET p == initHlsPlayer(instances, hls, m, k + 1) IN
    /\ instances' = p.instances
    /\ hls' = p.hls
    /\ media' = p.media
    /\ currentM3uLink' = k + 1
    /\ listeners' = ls \cup WaitListeners(k)
    /\ attemptLog' = Append(attemptLog, k)
    /\ showErrors(errs \o p.errs)
    /\ pc' = "wait"

\* The loop goes to candidate k: script.js and part_002a first probe the
\* link with a HEAD request, part_001 loads at once.
StartCandidate(k, ls, m, errs) ==
    /\ i' = k
    /\ IF variant = "part_001"
       THEN BeginWait(k, ls, m, errs) /\ UNCHANGED requests
       ELSE /\ pc' = "probe" /\ requests' = Sent("probe")
            /\ listeners' = ls /\ media' = m /\ showErrors(errs)
            /\ UNCHANGED <<instances, hls, currentM3uLink, attemptLog>>

\* The wait of candidate i ended (ok: resolved) or its probe failed: the
\* rest of the loop body, and of initializeApp when the function returns or
\* throws.  part_001 returns instead of throwing after the last candidate.
AfterWait(ok, how, ls, m, errs) ==
    /\ outcome' = Append(outcome, how)
    /\ IF ok \/ (i = nLinks - 1 /\ variant = "part_001")
       THEN /\ pc' = "done" /\ initSocket
            /\ listeners' = ls /\ media' = m /\ showErrors(errs)
            /\ UNCHANGED <<i, requests, instances, hls, currentM3uLink, attemptLog>>
       ELSE IF i = nLinks - 1
       THEN /\ pc' = "error"
            /\ listeners' = ls /\ media' = m /\ showErrors(errs \o <<AllFailedMsg>>)
            /\ UNCHANGED <<i, requests, instances, hls, currentM3uLink, attemptLog, sockVars>>
       ELSE StartCandidate(i + 1, ls, m, errs) /\ UNCHANGED sockVars

\* the get-m3u-links answer arrives: n links, or nothing usable (0)
GetM3uLinksResponse(n) ==
    /\ variant \in IIFE /\ pc = "links"
    /\ IF n = 0
       THEN /\ pc' = "error" /\ showErrors(<<NoStreamMsg>>)
            /\ UNCHANGED <<nLinks, i, requests, playerVars, attemptLog>>
       ELSE /\ nLinks' = n
            /\ StartCandidate(0, listeners, media, <<>>)
            /\ UNCHANGED outcome
    /\ UNCHANGED <<variant, cap, tokenInUrl, backoffs, retryCount, invalidAnswer,
                   sockVars, liveVars, sideVars>>

\* the HEAD probe of candidate i settles
ProbeResponse(ok) ==
    /\ variant \in IIFE /\ pc = "probe"
    /\ IF ok
       THEN BeginWait(i, listeners, media, <<>>)
            /\ UNCHANGED <<i, requests, outcome, sockVars>>
       ELSE AfterWait(FALSE, "probe", listeners, media, <<>>)
    /\ UNCHANGED <<variant, cap, tokenInUrl, backoffs, retryCount, invalidAnswer, nLinks,
                   liveVars, sideVars>>

InRun == pc \in {"probe", "wait"}

\* the wait of candidate i still listens for event e
Listening(e) == pc = "wait" /\ [ev |-> e, cand |-> i] \in listeners

\* what the script's own (global) 'error' listener on the video shows
GlobalVideoError == IF variant = "part_001" THEN <<>> ELSE <<VideoErrorMsg>>

\* the video element fires 'playing'
VideoPlaying ==
    /\ variant \in IIFE /\ InRun /\ media = "loading"
    /\ hls # 0 => ~instances[hls].fatal
    /\ LET ls == AfterDispatch(listeners, "playing") IN
       IF Listening("playing")
       THEN AfterWait(TRUE, "playing", ls, "playing", <<>>)
       ELSE /\ listeners' = ls /\ media' = "playing"
            /\ UNCHANGED <<pc, i, requests, instances, hls, currentM3uLink,
                           outcome, attemptLog, uiVars, sockVars>>
    /\ UNCHANGED <<variant, cap, tokenInUrl, backoffs, retryCount, invalidAnswer, nLinks,
                   liveVars, sideVars>>

\* the video element fires 'canplay' (only part_001 waits for it)
VideoCanPlay ==
    /\ variant = "part_001" /\ InRun /\ media = "loading"
    /\ Listening("canplay")
    /\ AfterWait(TRUE, "canplay", AfterDispatch(listeners, "canplay"), media, <<>>)
    /\ UNCHANGED <<variant, cap, tokenInUrl, backoffs, retryCount, invalidAnswer, nLinks,
                   liveVars, sideVars>>

\* the video element fires 'error'
VideoError ==
    /\ variant \in IIFE /\ InRun /\ media \in {"loading", "playing"}
    /\ LET ls == AfterDispatch(listeners, "error") IN
       IF Listening("error")
       THEN AfterWait(FALSE, "error", ls, "error", GlobalVideoError)
       ELSE /\ listeners' = ls /\ media' = "error" /\ showErrors(GlobalVideoError)
            /\ UNCHANGED <<pc, i, requests, instances, hls, currentM3uLink,
                           outcome, attemptLog, sockVars>>
    /\ UNCHANGED <<variant, cap, tokenInUrl, backoffs, retryCount, invalidAnswer, nLinks,
                   liveVars, sideVars>>

\* a timeout callback that resolves in every script
TimeoutResolvesAlways(v) == TRUE

\* a timeout callback that rejects in every script
TimeoutRejectsAlways(v) == FALSE

\* what the timeout callback of the wait promise does: script.js (15 s) and
\* part_002a (10 s) reject, part_001 (10 s) resolves
TimeoutResolves(v) == v = "part_001"

\* the timeout of candidate i's wait fires
WaitTimeout ==
    /\ variant \in IIFE /\ pc = "wait"
    /\ AfterWait(TimeoutResolves(variant), "timeout", listeners, media, <<>>)
    /\ UNCHANGED <<variant, cap, tokenInUrl, backoffs, retryCount, invalidAnswer, nLinks,
                   liveVars, sideVars>>

\* hls.js reports a fatal error: the Hls ERROR handler shows it
HlsFatalError(type) ==
    /\ variant \in IIFE /\ InRun
    /\ hls # 0 /\ instances[hls].live /\ ~instances[hls].fatal
    /\ instances' = [instances EXCEPT ![hls].fatal = TRUE]
    /\ showErrors(<<HlsFatalMsg(type)>>)
    /\ UNCHANGED <<initVars, hls, media, currentM3uLink, listeners, outcome,
                   sockVars, liveVars, attemptLog, sideVars>>


\* window.streamingApp.disconnect() of the IIFE scripts: socket.disconnect(),
\* hls.destroy(), clearInterval(securityInterval); the heartbeat interval has
\* no id to clear
DisconnectIIFE ==
    /\ variant \in IIFE /\ pc # "start"
    /\ sock' = IF socket THEN "closed" ELSE sock
    /\ instances' = hlsDestroy(instances, hls)
    /\ media' = Detached(instances, hls, media)
    /\ tornDown' = TRUE
    /\ UNCHANGED <<initVars, uiVars, hls, currentM3uLink, listeners, outcome,
                   socket, isConnected, attempts, acked, timers, heartbeatInterval,
                   hidden, lastEmit, openedBy, others, liveVars, attemptLog, sideVars>>

\* --------------------------------------- part_000: PrivateStreamingApp
\* clearHeartbeat(): the new timers and this.heartbeatInterval
clearHeartbeat(ts, hb) ==
    IF hb # 0 THEN [timers |-> clearInterval(ts, hb), hb |-> 0]
              ELSE [timers |-> ts, hb |-> hb]

\* startHeartbeat(): clearHeartbeat(), then a 15 s interval
startHeartbeat(ts, hb) ==
    LET c == clearHeartbeat(ts, hb)
        id == FreshTimer(c.timers, c.hb)
    IN [timers |-> c.timers \cup {[id |-> id, period |-> 15000]}, hb |-> id]

\* a handlePageHidden that starts the 30 s interval without clearing the 15 s one
handlePageHiddenLeaky(ts, hb) ==
    IF hb # 0
    THEN LET id == FreshTimer(ts, hb)
         IN [timers |-> ts \cup {[id |-> id, period |-> 30000]}, hb |-> id]
    ELSE [timers |-> ts, hb |-> hb]

\* handlePageHidden(): swap the interval for a 30 s one, if one runs
handlePageHidden(ts, hb) ==
    IF hb # 0
    THEN LET c == clearInterval(ts, hb)
             id == FreshTimer(c, hb)
         IN [timers |-> c \cup {[id |-> id, period |-> 30000]}, hb |-> id]
    ELSE [timers |-> ts, hb |-> hb]

\* handlePageVisible(): clearInterval, then startHeartbeat(), if one runs
handlePageVisible(ts, hb) ==
    IF hb # 0 THEN startHeartbeat(clearInterval(ts, hb), hb)
              ELSE [timers |-> ts, hb |-> hb]

\* the 'disconnect' handler of part_000's socket, which socket.disconnect()
\* runs when the socket was connected: isConnected = false; clearHeartbeat()
OnDisconnect0(wasConnected) ==
    IF wasConnected
    THEN [isConnected |-> FALSE, hb |-> clearHeartbeat(timers, heartbeatInterval)]
    ELSE [isConnected |-> isConnected,
          hb |-> [timers |-> timers, hb |-> heartbeatInterval]]

\* connectWebSocket(): close the socket held, if any, and open a new one
connectWebSocket(who) ==
    LET d == OnDisconnect0(socket /\ sock = "connected") IN
    /\ sock' = "connecting"
    /\ socket' = TRUE
    /\ openedBy' = who
    /\ others' = replaceSocket(socket, sock, others)
    /\ attempts' = 0
    /\ acked' = FALSE
    /\ isConnected' = d.isConnected
    /\ timers' = d.hb.timers
    /\ heartbeatInterval' = d.hb.hb
    /\ UNCHANGED <<hidden, lastEmit, tornDown>>

\* initializeVideoPlayer(streamUrl): destroy the instance held and forget
\* it, then hls.js, native playback or the capability error
initializeVideoPlayer(insts, h, m, url) ==
    LET prior == hlsDestroy(insts, h) IN
    IF cap = "hlsjs"
    THEN [instances |-> Append(prior, NewHls(url)), hls |-> Len(prior) + 1,
          media |-> "loading", errs |-> <<>>]
    ELSE IF cap = "native"
    THEN [instances |-> prior, hls |-> 0, media |-> "loading", errs |-> <<>>]
    ELSE [instances |-> prior, hls |-> 0, media |-> Detached(insts, h, m),
          errs |-> <<NoHlsMsg>>]

\* the listeners of addEventListeners() are in place
Wired == variant = "part_000" /\ tokenInUrl /\ pc # "start"

\* new PrivateStreamingApp(): init() up to validateTokenAndStart's await
Construct ==
    /\ variant = "part_000" /\ pc = "start"
    /\ IF tokenInUrl
       THEN pc' = "validate" /\ requests' = Sent("validate") /\ UNCHANGED uiVars
       ELSE pc' = "error" /\ showErrors(<<NoTokenMsg>>) /\ UNCHANGED requests
    /\ UNCHANGED <<variant, cap, tokenInUrl, backoffs, retryCount, invalidAnswer, nLinks, i,
                   playerVars, sockVars, liveVars, attemptLog, sideVars>>

\* validateTokenAndStart after its await: markTokenUsed() is not awaited,
\* loadStream() sends get-m3u-links
ValidateTokenAndStart(r) ==
    /\ variant = "part_000" /\ pc = "validate"
    /\ IF r = "valid"
       THEN /\ pc' = "links"
            /\ requests' = [requests EXCEPT !["mark"] = @ + 1, !["links"] = @ + 1]
            /\ UNCHANGED <<uiVars, invalidAnswer>>
       ELSE /\ pc' = "error"
            /\ invalidAnswer' = IF r \in BackendTexts THEN r ELSE invalidAnswer
            /\ showErrors(<<CASE r = "neterr" -> FetchFailedMsg
                              [] r = "http" -> HttpErrorMsg
                              [] OTHER -> OrElse(r, FallbackInvalid(variant))>>)
            /\ UNCHANGED requests
    /\ UNCHANGED <<variant, cap, tokenInUrl, backoffs, retryCount, nLinks, i,
                   playerVars, sockVars, liveVars, attemptLog, sideVars>>

\* loadStream() after its await (n = 0: no usable answer), and then
\* connectWebSocket(), which validateTokenAndStart calls whatever loadStream did
LoadStream0(n) ==
    /\ variant = "part_000" /\ pc = "links"
    /\ nLinks' = n
    /\ pc' = "done"
    /\ IF n = 0
       THEN showErrors(<<NoStreamMsg>>)
            /\ UNCHANGED <<instances, hls, media, currentM3uLink, attemptLog>>
       ELSE LET p == initializeVideoPlayer(instances, hls, media, 1) IN
            /\ instances' = p.instances /\ hls' = p.hls /\ media' = p.media
            /\ currentM3uLink' = 1
            /\ attemptLog' = Append(attemptLog, 0)
            /\ showErrors(p.errs)
    /\ connectWebSocket("init")
    /\ UNCHANGED <<variant, cap, tokenInUrl, backoffs, retryCount, requests, invalidAnswer, i,
                   listeners, outcome, liveVars, sideVars>>

\* a further call of the public method initializeVideoPlayer(url) on
\* window.streamingApp, for any link of the list
ReloadStream(url) ==
    /\ variant = "part_000" /\ pc = "done"
    /\ Len(attemptLog) < MaxLinks /\ url \in 1..nLinks
    /\ LET p == initializeVideoPlayer(instances, hls, media, url) IN
       /\ instances' = p.instances /\ hls' = p.hls /\ media' = p.media
       /\ showErrors(p.errs)
    /\ currentM3uLink' = url
    /\ attemptLog' = Append(attemptLog, url - 1)
    /\ UNCHANGED <<initVars, listeners, outcome, sockVars, liveVars, sideVars>>

\* visibilitychange
VisibilityChange ==
    /\ Wired
    /\ hidden' = ~hidden
    /\ LET h == IF hidden' THEN handlePageHidden(timers, heartbeatInterval)
                           ELSE handlePageVisible(timers, heartbeatInterval) IN
       timers' = h.timers /\ heartbeatInterval' = h.hb
    /\ UNCHANGED <<initVars, playerVars, uiVars, sock, socket, isConnected, attempts,
                   acked, lastEmit, openedBy, others, tornDown, liveVars, attemptLog, sideVars>>

\* the browser's 'online' event: handleConnectionRestored()
Online ==
    /\ Wired
    /\ ~isConnected
    /\ connectWebSocket("online")
    /\ UNCHANGED <<initVars, playerVars, uiVars, liveVars, attemptLog, sideVars>>

\* disconnect(): on beforeunload or called by hand
Disconnect0 ==
    /\ variant = "part_000" /\ pc # "start"
    /\ LET d == OnDisconnect0(socket /\ sock = "connected")
           c == clearHeartbeat(d.hb.timers, d.hb.hb) IN
       /\ isConnected' = d.isConnected
       /\ timers' = c.timers
       /\ heartbeatInterval' = c.hb
    /\ sock' = IF socket THEN "closed" ELSE sock
    /\ socket' = FALSE
    /\ others' = dropSocket(socket, "closed", others)
    /\ instances' = hlsDestroy(instances, hls)
    /\ media' = Detached(instances, hls, media)
    /\ hls' = 0
    /\ tornDown' = TRUE
    /\ UNCHANGED <<initVars, uiVars, currentM3uLink, listeners, outcome, attempts,
                   acked, hidden, lastEmit, openedBy, liveVars, attemptLog, sideVars>>

\* ----------------------------------- the transport and the server
HasSocket == variant \in IIFE \cup {"part_000"}

\* the transport (re)connects: the 'connect' handler emits join_stream
SocketConnect ==
    /\ HasSocket /\ sock \in {"connecting", "reconnecting"}
    /\ sock' = "connected"
    /\ attempts' = 0
    /\ acked' = FALSE
    /\ isConnected' = IF variant = "part_000" THEN TRUE ELSE isConnected
    /\ lastEmit' = [type |-> "join_stream", connected |-> TRUE, acked |-> FALSE]
    /\ UNCHANGED <<initVars, playerVars, uiVars, socket, timers, heartbeatInterval,
                   hidden, openedBy, others, tornDown, liveVars, attemptLog, sideVars>>

\* the server's 'joined_stream' arrives: part_000 starts the heartbeat, the
\* IIFE scripts have no handler for it
JoinedStream ==
    /\ HasSocket /\ sock = "connected" /\ ~acked
    /\ acked' = TRUE
    /\ LET h == IF variant = "part_000" THEN startHeartbeat(timers, heartbeatInterval)
                ELSE [timers |-> timers, hb |-> heartbeatInterval] IN
       timers' = h.timers /\ heartbeatInterval' = h.hb
    /\ UNCHANGED <<initVars, playerVars, uiVars, sock, socket, isConnected, attempts,
                   hidden, lastEmit, openedBy, others, tornDown, liveVars, attemptLog, sideVars>>

\* the transport drops: the 'disconnect' handler; socket.io starts to reconnect
TransportDrop ==
    /\ HasSocket /\ sock = "connected"
    /\ sock' = "reconnecting"
    /\ attempts' = 0
    /\ acked' = FALSE
    /\ LET d == IF variant = "part_000" THEN OnDisconnect0(TRUE) ELSE OnDisconnect0(FALSE) IN
       /\ isConnected' = d.isConnected
       /\ timers' = d.hb.timers
       /\ heartbeatInterval' = d.hb.hb
    /\ UNCHANGED <<initVars, playerVars, uiVars, socket, hidden, lastEmit, openedBy, others,
                   tornDown, liveVars, attemptLog, sideVars>>

\* a (re)connection attempt fails; after reconnectionAttempts socket.io gives up
ReconnectFail ==
    /\ HasSocket /\ sock \in {"connecting", "reconnecting"}
    /\ attempts < reconnectionAttempts
    /\ attempts' = attempts + 1
    /\ sock' = IF attempts' = reconnectionAttempts THEN "failed" ELSE "reconnecting"
    /\ UNCHANGED <<initVars, playerVars, uiVars, socket, isConnected, acked, timers,
                   heartbeatInterval, hidden, lastEmit, openedBy, others, tornDown,
                   liveVars, attemptLog, sideVars>>

\* the condition under which the interval's callback emits
HeartbeatGuard ==
    IF variant = "part_000" THEN socket /\ isConnected
                            ELSE socket /\ sock = "connected"

\* a heartbeat interval fires
HeartbeatTick(t) ==
    /\ HasSocket /\ t \in timers
    /\ HeartbeatGuard
    /\ lastEmit' = [type |-> "heartbeat", connected |-> sock = "connected", acked |-> acked]
    /\ UNCHANGED <<initVars, playerVars, uiVars, sock, socket, isConnected, attempts,
                   acked, timers, heartbeatInterval, hidden, openedBy, others, tornDown,
                   liveVars, attemptLog, sideVars>>


\* ------------------------------------------- part_002b: global script
UnknownMsg == "Terjadi kesalahan yang tidak diketahui."
AllBrokenMsg == "Semua link streaming bermasalah"
NoTokenLiveMsg == "Token akses tidak ditemukan dalam URL."

\* The state the handlers of the global script work on, threaded through
\* the listeners one event runs: currentLinkIndex, the pending 2 s timers,
\* the errors shown, the loads, and where initializeApp stands.
LiveState == [i |-> i, retryTimers |-> retryTimers, errs |-> <<>>, loads |-> loads, pc |-> pc]

\* a loadStream call: the candidate, its promise, its two flags, its 15 s
\* timer, the Hls object it made (0: none), whether its {once}
\* 'loadedmetadata' listener is attached (native), and whether
\* initializeVideoPlayer awaits the loadStreamWithFailover call that made it
NewLoad(cand, inst, native, awaited) ==
    [cand |-> cand, status |-> "pending", manifestLoaded |-> FALSE,
     errorOccurred |-> FALSE, timer |-> TRUE, inst |-> inst, meta |-> native,
     awaited |-> awaited]

\* The promise of load k settles, and the loadStreamWithFailover call that
\* awaits it goes on: after a rejection currentLinkIndex++ and either a 2 s
\* timer or the all-links-failed error, which only the awaited call's caller
\* (initializeVideoPlayer) catches and shows through ErrorHandler.
Settle(st, k, ok, n) ==
    IF st.loads[k].status # "pending" THEN st
    ELSE LET aw == st.loads[k].awaited
             st1 == [st EXCEPT !.loads[k].status = IF ok THEN "resolved" ELSE "rejected",
                               !.pc = IF aw THEN "done" ELSE @] IN
         IF ok THEN st1
         ELSE IF st1.i + 1 < n
         THEN [st1 EXCEPT !.i = @ + 1, !.retryTimers = @ + 1]
         ELSE [st1 EXCEPT !.i = @ + 1,
                          !.errs = IF aw THEN Append(@, UnknownMsg) ELSE @]

\* handleStreamError()
handleStreamError(st, n) ==
    IF st.i < n - 1
    THEN [st EXCEPT !.i = @ + 1, !.retryTimers = @ + 1]
    ELSE [st EXCEPT !.errs = Append(@, AllBrokenMsg)]

\* the video's 'error' listeners run in the order they were added
RECURSIVE DispatchError(_, _, _)
DispatchError(ls, st, n) ==
    IF ls = <<>> THEN st
    ELSE DispatchError(Tail(ls),
            IF Head(ls) = 0 THEN handleStreamError(st, n)
            ELSE Settle([st EXCEPT !.loads[Head(ls)].timer = FALSE], Head(ls), FALSE, n),
            n)

\* the listeners that stay after an 'error' event: the {once} ones are gone
RECURSIVE Monitors(_)
Monitors(ls) ==
    IF ls = <<>> THEN <<>>
    ELSE IF Head(ls) = 0 THEN <<0>> \o Monitors(Tail(ls)) ELSE Monitors(Tail(ls))

\* write a LiveState back
Commit(st) ==
    /\ i' = st.i
    /\ retryTimers' = st.retryTimers
    /\ loads' = st.loads
    /\ pc' = st.pc
    /\ showErrors(st.errs)

\* loadStream(link) for candidate cand, called by loadStreamWithFailover:
\* destroy and forget the instance held, then hls.js, native or reject
LoadStream(st, cand, awaited, n) ==
    LET prior == hlsDestroy(instances, hls)
        k == Len(st.loads) + 1 IN
    /\ attemptLog' = Append(attemptLog, cand)
    /\ UNCHANGED currentM3uLink
    /\ IF cap = "hlsjs"
       THEN /\ instances' = Append(prior, NewHls(cand + 1))
            /\ hls' = Len(prior) + 1
            /\ media' = "loading"
            /\ errorListeners' = errorListeners
            /\ Commit([st EXCEPT !.loads = Append(@, NewLoad(cand, Len(prior) + 1, FALSE, awaited))])
       ELSE IF cap = "native"
       THEN /\ instances' = prior /\ hls' = 0
            /\ media' = "loading"
            /\ errorListeners' = Append(errorListeners, k)
            /\ Commit([st EXCEPT !.loads = Append(@, NewLoad(cand, 0, TRUE, awaited))])
       ELSE /\ instances' = prior /\ hls' = 0
            /\ media' = Detached(instances, hls, media)
            /\ errorListeners' = errorListeners
            /\ Commit(Settle([st EXCEPT !.loads = Append(@,
                        [NewLoad(cand, 0, FALSE, awaited) EXCEPT !.timer = FALSE])],
                      k, FALSE, n))

\* initializeApp of the global script up to validateAccessToken's
\* check-device request (the public-IP lookup before it never fails)
InitializeAppLive ==
    /\ variant = "part_002b" /\ pc = "start"
    /\ IF tokenInUrl
       THEN pc' = "check" /\ requests' = Sent("check") /\ UNCHANGED uiVars
       ELSE pc' = "error" /\ showErrors(<<NoTokenLiveMsg>>) /\ UNCHANGED requests
    /\ UNCHANGED <<variant, cap, tokenInUrl, backoffs, retryCount, invalidAnswer, nLinks, i,
                   playerVars, sockVars, liveVars, attemptLog, sideVars>>

\* validateAccessToken returned false: initializeApp throws its own text
AccessRefused ==
    /\ pc' = "error"
    /\ showErrors(<<FallbackInvalid(variant)>>)
    /\ UNCHANGED requests

\* the check-device answer: "allowed", "notfound" (error 'Token not found'),
\* "denied", or "neterr", which StreamingAPI turns into {allowed: false}
CheckDeviceResponse(r) ==
    /\ variant = "part_002b" /\ pc = "check"
    /\ IF r \in {"allowed", "notfound"}
       THEN pc' = "validate" /\ requests' = Sent("validate") /\ UNCHANGED uiVars
       ELSE AccessRefused
    /\ UNCHANGED <<variant, cap, tokenInUrl, backoffs, retryCount, invalidAnswer, nLinks, i,
                   playerVars, sockVars, liveVars, attemptLog, sideVars>>

\* the validate-token answer, through StreamingAPI.validateToken
ValidateAccessToken(r) ==
    /\ variant = "part_002b" /\ pc = "validate"
    /\ invalidAnswer' = IF r \in BackendTexts THEN r ELSE invalidAnswer
    /\ IF r = "valid"
       THEN pc' = "mark" /\ requests' = Sent("mark") /\ UNCHANGED uiVars
       ELSE AccessRefused
    /\ UNCHANGED <<variant, cap, tokenInUrl, backoffs, retryCount, nLinks, i,
                   playerVars, sockVars, liveVars, attemptLog, sideVars>>

\* the mark-token-used answer; on success initializeVideoPlayer asks for the links
MarkTokenUsedLive(ok) ==
    /\ variant = "part_002b" /\ pc = "mark"
    /\ IF ok
       THEN pc' = "links" /\ requests' = Sent("links") /\ UNCHANGED uiVars
       ELSE AccessRefused
    /\ UNCHANGED <<variant, cap, tokenInUrl, backoffs, retryCount, invalidAnswer, nLinks, i,
                   playerVars, sockVars, liveVars, attemptLog, sideVars>>

\* the get-m3u-links answer (n = 0: none usable): initializeVideoPlayer
\* shows its error and initializeApp goes on, or the first
\* loadStreamWithFailover() call starts
InitializeVideoPlayerLive(n) ==
    /\ variant = "part_002b" /\ pc = "links"
    /\ nLinks' = n
    /\ IF n = 0
       THEN /\ pc' = "done" /\ showErrors(<<UnknownMsg>>)
            /\ UNCHANGED <<i, instances, hls, media, currentM3uLink, liveVars, attemptLog>>
       ELSE LoadStream([LiveState EXCEPT !.i = 0, !.pc = "load"], 0, TRUE, n)
    /\ UNCHANGED <<variant, cap, tokenInUrl, backoffs, retryCount, requests, invalidAnswer,
                   listeners, outcome, sockVars, sideVars>>

\* a 2 s timer fires: loadStreamWithFailover(), which throws (to nobody)
\* when currentLinkIndex ran past the list
RetryTimerFires ==
    /\ variant = "part_002b" /\ retryTimers > 0
    /\ LET st == [LiveState EXCEPT !.retryTimers = @ - 1] IN
       IF i >= nLinks
       THEN Commit(st) /\ UNCHANGED <<instances, hls, media, currentM3uLink,
                                      errorListeners, attemptLog>>
       ELSE LoadStream(st, i, FALSE, nLinks)
    /\ UNCHANGED <<variant, cap, tokenInUrl, backoffs, retryCount, requests, invalidAnswer, nLinks,
                   listeners, outcome, sockVars, sideVars>>

\* the Hls object load k made is still alive
InstLive(k) == loads[k].inst # 0 /\ instances[loads[k].inst].live

\* MANIFEST_PARSED of load k's Hls object: configureLivePlayer() adds an
\* error monitor; resolve()
ManifestParsed(k) ==
    /\ variant = "part_002b" /\ k \in 1..Len(loads) /\ InstLive(k)
    /\ ~loads[k].manifestLoaded /\ ~loads[k].errorOccurred
    /\ errorListeners' = Append(errorListeners, 0)
    /\ Commit(Settle([LiveState EXCEPT !.loads[k].manifestLoaded = TRUE,
                                       !.loads[k].timer = FALSE], k, TRUE, nLinks))
    /\ UNCHANGED <<variant, cap, tokenInUrl, backoffs, retryCount, requests, invalidAnswer, nLinks,
                   playerVars, sockVars, attemptLog, sideVars>>

\* a fatal Hls ERROR of load k's Hls object: reject()
HlsFatalLive(k) ==
    /\ variant = "part_002b" /\ k \in 1..Len(loads) /\ InstLive(k)
    /\ ~loads[k].errorOccurred /\ ~instances[loads[k].inst].fatal
    /\ instances' = [instances EXCEPT ![loads[k].inst].fatal = TRUE]
    /\ Commit(Settle([LiveState EXCEPT !.loads[k].errorOccurred = TRUE,
                                       !.loads[k].timer = FALSE], k, FALSE, nLinks))
    /\ UNCHANGED <<variant, cap, tokenInUrl, backoffs, retryCount, requests, invalidAnswer, nLinks,
                   hls, media, currentM3uLink, listeners, outcome, errorListeners,
                   sockVars, attemptLog, sideVars>>

\* the 15 s timer of load k fires.  hls.js: unless a flag is set, destroy
\* whatever the variable hls holds now and reject.  native: reject.
LoadTimeout(k) ==
    /\ variant = "part_002b" /\ k \in 1..Len(loads) /\ loads[k].timer
    /\ LET st == [LiveState EXCEPT !.loads[k].timer = FALSE] IN
       IF loads[k].inst # 0
       THEN IF ~loads[k].manifestLoaded /\ ~loads[k].errorOccurred
            THEN /\ instances' = hlsDestroy(instances, hls)
                 /\ media' = Detached(instances, hls, media)
                 /\ Commit(Settle([st EXCEPT !.loads[k].errorOccurred = TRUE], k, FALSE, nLinks))
            ELSE Commit(st) /\ UNCHANGED <<instances, media>>
       ELSE Commit(Settle(st, k, FALSE, nLinks)) /\ UNCHANGED <<instances, media>>
    /\ UNCHANGED <<variant, cap, tokenInUrl, backoffs, retryCount, requests, invalidAnswer, nLinks,
                   hls, currentM3uLink, listeners, outcome, errorListeners,
                   sockVars, attemptLog, sideVars>>

\* native playback: 'loadedmetadata' runs the {once} listener of every load
\* that still has one: clearTimeout, configureLivePlayer(), resolve()
RECURSIVE MetaAll(_, _, _)
MetaAll(st, k, n) ==
    IF k > Len(st.loads) THEN st
    ELSE MetaAll(IF st.loads[k].meta
                 THEN Settle([st EXCEPT !.loads[k].meta = FALSE, !.loads[k].timer = FALSE],
                             k, TRUE, n)
                 ELSE st, k + 1, n)

MetaCount == Cardinality({k \in 1..Len(loads) : loads[k].meta})

LoadedMetadata ==
    /\ variant = "part_002b" /\ cap = "native" /\ media = "loading"
    /\ MetaCount > 0
    /\ errorListeners' = errorListeners \o [k \in 1..MetaCount |-> 0]
    /\ media' = "playing"
    /\ Commit(MetaAll(LiveState, 1, nLinks))
    /\ UNCHANGED <<variant, cap, tokenInUrl, backoffs, retryCount, requests, invalidAnswer, nLinks,
                   instances, hls, currentM3uLink, listeners, outcome,
                   sockVars, attemptLog, sideVars>>

\* the video element fires 'error'
VideoErrorLive ==
    /\ variant = "part_002b" /\ media \in {"loading", "playing"}
    /\ errorListeners # <<>>
    /\ media' = "error"
    /\ errorListeners' = Monitors(errorListeners)
    /\ Commit(DispatchError(errorListeners, LiveState, nLinks))
    /\ UNCHANGED <<variant, cap, tokenInUrl, backoffs, retryCount, requests, invalidAnswer, nLinks,
                   instances, hls, currentM3uLink, listeners, outcome,
                   sockVars, attemptLog, sideVars>>


\* ------------------------------------------------------------- chat
\* while (children.length > 100) removeChild(firstChild)
RECURSIVE TrimAll(_)
TrimAll(t) == IF Len(t) > ChatCap THEN TrimAll(Tail(t)) ELSE t

\* if (messages.length > 100) messages[0].remove()
TrimOne(t) == IF Len(t) > ChatCap THEN Tail(t) ELSE t

\* addChatMessage: the transcript after message m was appended
addChatMessage(v, t, m) ==
    CASE v \in {"script", "part_001"} -> TrimOne(Append(t, m))
      [] v = "part_000" -> TrimAll(Append(t, m))
      [] OTHER -> Append(t, m)

\* a chat message reaches addChatMessage
AddChatMessage ==
    /\ arrived < ChatCap + MaxExtraMsgs
    /\ arrived' = arrived + 1
    /\ chat' = addChatMessage(variant, chat, arrived + 1)
    /\ UNCHANGED <<playerVars, initVars, uiVars, sockVars, liveVars, attemptLog, apiVars, viewerVars, seekVars, playVars>>

\* ------------------------------------------- src/api.js: StreamingAPI
ApiOps == {"validateToken", "getM3ULinks", "markTokenUsed", "checkDevice"}

\* API_CONFIG.ENDPOINTS
EndpointOf(op) ==
    CASE op = "validateToken" -> "/validate-token"
      [] op = "getM3ULinks" -> "/get-m3u-links"
      [] op = "markTokenUsed" -> "/mark-token-used"
      [] OTHER -> "/check-device"

\* the flag of each operation's answer
FlagOf(op) ==
    CASE op = "validateToken" -> "valid"
      [] op = "checkDevice" -> "allowed"
      [] OTHER -> "success"

\* What the transport does with one request: fetch rejects, the status is
\* not 2xx, the body is not JSON, or a JSON body arrives whose flag is set
\* or not (with the backend's text).
Transports ==
    {[kind |-> "neterr", status |-> 0, ok |-> FALSE, error |-> ""]}
    \cup {[kind |-> "status", status |-> c, ok |-> FALSE, error |-> ""] : c \in {401, 500}}
    \cup {[kind |-> "malformed", status |-> 200, ok |-> FALSE, error |-> ""]}
    \cup {[kind |-> "json", status |-> 200, ok |-> TRUE, error |-> ""]}
    \cup {[kind |-> "json", status |-> 200, ok |-> FALSE, error |-> e] : e \in BackendTexts}

HttpMsg(c) == IF c = 401 THEN "HTTP 401" ELSE HttpErrorMsg
SyntaxErrorMsg == "Unexpected token"

\* makeRequest(endpoint, method, data): one fetch; it throws what fetch or
\* response.json() threw, or its own HTTP error
makeRequest(endpoint, t) ==
    CASE t.kind = "neterr" ->
            [threw |-> TRUE, message |-> FetchFailedMsg, ok |-> FALSE, error |-> "",
             fetches |-> <<endpoint>>]
      [] t.kind = "status" ->
            [threw |-> TRUE, message |-> HttpMsg(t.status), ok |-> FALSE, error |-> "",
             fetches |-> <<endpoint>>]
      [] t.kind = "malformed" ->
            [threw |-> TRUE, message |-> SyntaxErrorMsg, ok |-> FALSE, error |-> "",
             fetches |-> <<endpoint>>]
      [] OTHER ->
            [threw |-> FALSE, message |-> "", ok |-> t.ok, error |-> t.error,
             fetches |-> <<endpoint>>]

\* an operation whose catch lets the error through
StreamingApiRethrows(op, t) ==
    LET r == makeRequest(EndpointOf(op), t) IN
    [rejected |-> r.threw, flag |-> FlagOf(op), ok |-> r.ok, error |-> r.error,
     fetches |-> r.fetches]

\* validateToken / getM3ULinks / markTokenUsed / checkDevice: the answer of
\* makeRequest, or {<flag>: false, error: error.message} from the catch
StreamingApi(op, t) ==
    LET r == makeRequest(EndpointOf(op), t) IN
    IF r.threw
    THEN [rejected |-> FALSE, flag |-> FlagOf(op), ok |-> FALSE, error |-> r.message,
          fetches |-> r.fetches]
    ELSE [rejected |-> FALSE, flag |-> FlagOf(op), ok |-> r.ok, error |-> r.error,
          fetches |-> r.fetches]

NoTransport == [kind |-> "none", status |-> 0, ok |-> FALSE, error |-> ""]
NoResult == [rejected |-> FALSE, flag |-> "", ok |-> FALSE, error |-> "", fetches |-> <<>>]

\* a StreamingAPI operation is called and its request meets transport t
ApiCall(op, t) ==
    /\ apiCall' = [op |-> op, transport |-> t, result |-> StreamingApi(op, t)]
    /\ UNCHANGED <<playerVars, initVars, uiVars, sockVars, liveVars, attemptLog, chatVars, viewerVars, seekVars, playVars>>

\* ------------------------------------------------- viewer count
\* updateViewerCount(count): part_000 and part_002's first script write the
\* element at once; script.js and part_001 compare with the number shown
\* and, when it differs, write it from a 200 ms timer
updateViewerCount(v, shown, pending, count) ==
    IF v \in {"script", "part_001"}
    THEN [displayed |-> shown,
          uiTimers |-> IF count # shown THEN Append(pending, count) ELSE pending]
    ELSE [displayed |-> count, uiTimers |-> pending]

\* the socket delivers a viewer-count event (the global script of part_002
\* has no socket)
ViewerCount(c) ==
    /\ variant # "part_002b"
    /\ Len(uiTimers) < MaxPending
    /\ lastCount' = c
    /\ LET u == updateViewerCount(variant, displayed, uiTimers, c) IN
       displayed' = u.displayed /\ uiTimers' = u.uiTimers
    /\ UNCHANGED <<playerVars, initVars, uiVars, sockVars, liveVars, attemptLog, chatVars, apiVars, seekVars, playVars>>

\* the oldest 200 ms timer fires: viewerCountElement.textContent = count
ViewerTimerFires ==
    /\ uiTimers # <<>>
    /\ displayed' = Head(uiTimers)
    /\ uiTimers' = Tail(uiTimers)
    /\ UNCHANGED <<playerVars, initVars, uiVars, sockVars, liveVars, attemptLog, chatVars,
                   apiVars, lastCount, seekVars, playVars>>

\* ------------------------------------------------------ seeking
\* The 'seeking' listener of part_000's setupVideoEvents, for a duration
\* that is "Infinity" (live) or "finite" (> 0): where currentTime ends up,
\* "user" being where the user put it.  A 'seeking' event is fired only when
\* video.seekable has a range, so seekable.end(0) is a number.
onSeeking(d, hasHls, liveSync) ==
    IF d # "finite"
    THEN IF hasHls /\ liveSync THEN "liveEdge" ELSE "seekableEnd"
    ELSE "user"

\* The 'seeking' listener of configureLivePlayer (global script of
\* part_002): currentTime = duration || 0, an assignment that throws for a
\* non-finite value and leaves currentTime alone.
onSeekingLive(d) == IF d = "finite" THEN "duration" ELSE "user"

\* the user seeks and the 'seeking' listeners run; the IIFE scripts have none
Seek(d, liveSync) ==
    /\ seek' = [duration |-> d, liveSync |-> liveSync,
                currentTime |-> CASE variant = "part_000" -> onSeeking(d, cap = "hlsjs", liveSync)
                                  [] variant = "part_002b" -> onSeekingLive(d)
                                  [] OTHER -> "user"]
    /\ UNCHANGED <<playerVars, initVars, uiVars, sockVars, liveVars, attemptLog, chatVars,
                   apiVars, viewerVars, playVars>>

\* ------------------------------------- part_001: the play button
NoPromise == [by |-> "none", ok |-> FALSE]
OtherVars == <<playerVars, initVars, uiVars, sockVars, liveVars, attemptLog, chatVars,
               apiVars, viewerVars, seekVars>>

\* videoPlayer.play(), called by the MANIFEST_PARSED handler ("auto") or by
\* the play button's click handler ("click"): the browser allows it, and the
\* element stops being paused, or it does not
PlayCall(by, allowed) ==
    /\ variant = "part_001" /\ ~failed
    /\ playPromise = NoPromise
    /\ by = "auto" => paused /\ ~isPlaying /\ playButton = ""
    /\ playPromise' = [by |-> by, ok |-> allowed]
    /\ paused' = IF allowed THEN FALSE ELSE paused
    /\ UNCHANGED <<isPlaying, playButton, ready, failed, playErrors, OtherVars>>

\* the promise of play() settles: it resolves once playback started, and
\* the then-handlers hide the button and set isPlaying; it rejects, and the
\* MANIFEST_PARSED catch shows the button, the click catch calls showError
PlaySettles ==
    /\ variant = "part_001" /\ playPromise # NoPromise
    /\ playPromise.ok => ready /\ ~paused
    /\ playPromise.by = "click" /\ ~playPromise.ok => playErrors < MaxPlayErrors
    /\ playPromise' = NoPromise
    /\ isPlaying' = IF playPromise.ok THEN TRUE ELSE isPlaying
    /\ playButton' = IF playPromise.ok THEN "none"
                     ELSE IF playPromise.by = "auto" THEN "flex" ELSE playButton
    /\ playErrors' = IF playPromise.by = "click" /\ ~playPromise.ok
                     THEN playErrors + 1 ELSE playErrors
    /\ UNCHANGED <<paused, ready, failed, OtherVars>>

\* 'canplay': the element got enough data; the script's listener (and the
\* onCanPlay of a pending wait) shows the play button
OnCanPlay ==
    /\ variant = "part_001" /\ ~ready /\ ~failed
    /\ ready' = TRUE
    /\ playButton' = "flex"
    /\ UNCHANGED <<isPlaying, paused, failed, playPromise, playErrors, OtherVars>>

\* 'waiting': the element ran out of data; the listener only logs
OnWaiting ==
    /\ variant = "part_001" /\ ready /\ ~failed
    /\ ready' = FALSE
    /\ UNCHANGED <<isPlaying, playButton, paused, failed, playPromise, playErrors, OtherVars>>

\* 'playing': playback started or resumed
OnPlaying ==
    /\ variant = "part_001" /\ ready /\ ~paused /\ ~failed
    /\ playButton' = "none"
    /\ isPlaying' = TRUE
    /\ UNCHANGED <<paused, ready, failed, playPromise, playErrors, OtherVars>>

\* 'pause': a pending play() promise is rejected by it
OnPause ==
    /\ variant = "part_001" /\ ~paused
    /\ paused' = TRUE
    /\ isPlaying' = FALSE
    /\ playPromise' = IF playPromise = NoPromise THEN playPromise
                      ELSE [playPromise EXCEPT !.ok = FALSE]
    /\ UNCHANGED <<playButton, ready, failed, playErrors, OtherVars>>

\* 'error' on the video element: the listener shows the play button
OnError ==
    /\ variant = "part_001" /\ ~failed
    /\ failed' = TRUE
    /\ playButton' = "flex"
    /\ UNCHANGED <<isPlaying, paused, ready, playPromise, playErrors, OtherVars>>

\* ------------------------------------------------------ specification
Endpoints == {"check", "validate", "mark", "links", "probe"}
ValidateAnswers == {"valid", "neterr", "http"} \cup BackendTexts

Init ==
    /\ variant \in Variants
    /\ cap \in {"hlsjs", "native", "none"}
    /\ tokenInUrl \in BOOLEAN
    /\ pc = "start"
    /\ retryCount = 0
    /\ backoffs = <<>>
    /\ requests = [e \in Endpoints |-> 0]
    /\ invalidAnswer = "-"
    /\ nLinks = 0
    /\ i = 0
    /\ instances = <<>>
    /\ hls = 0
    /\ media = "none"
    /\ currentM3uLink = 0
    /\ listeners = {}
    /\ outcome = <<>>
    /\ errorMessage = ""
    /\ showErrorCalls = 0
    /\ sock = "none"
    /\ socket = FALSE
    /\ isConnected = FALSE
    /\ attempts = 0
    /\ acked = FALSE
    /\ timers = {}
    /\ heartbeatInterval = 0
    /\ hidden = FALSE
    /\ lastEmit = [type |-> "none", connected |-> FALSE, acked |-> FALSE]
    /\ openedBy = "none"
    /\ others = {}
    /\ tornDown = FALSE
    /\ loads = <<>>
    /\ retryTimers = 0
    /\ errorListeners = <<>>
    /\ attemptLog = <<>>
    /\ chat = <<>>
    /\ arrived = 0
    /\ apiCall = [op |-> "none", transport |-> NoTransport, result |-> NoResult]
    /\ displayed = 0
    /\ lastCount = -1
    /\ uiTimers = <<>>
    /\ seek = [duration |-> "none", liveSync |-> FALSE, currentTime |-> "start"]
    /\ isPlaying = FALSE
    /\ playButton = ""
    /\ paused = TRUE
    /\ ready = FALSE
    /\ failed = FALSE
    /\ playPromise = NoPromise
    /\ playErrors = 0

Next ==
    \/ InitializeApp
    \/ \E r \in ValidateAnswers : ValidateTokenResponse(r)
    \/ RetryTimer
    \/ \E r \in {"ok", "refused", "neterr"} : MarkTokenUsedResponse(r)
    \/ \E n \in 0..MaxLinks : GetM3uLinksResponse(n)
    \/ \E ok \in BOOLEAN : ProbeResponse(ok)
    \/ VideoPlaying
    \/ VideoCanPlay
    \/ VideoError
    \/ WaitTimeout
    \/ \E type \in {"network", "media", "other"} : HlsFatalError(type)
    \/ DisconnectIIFE
    \/ Construct
    \/ \E r \in ValidateAnswers : ValidateTokenAndStart(r)
    \/ \E n \in 0..MaxLinks : LoadStream0(n)
    \/ \E url \in 1..MaxLinks : ReloadStream(url)
    \/ VisibilityChange
    \/ Online
    \/ Disconnect0
    \/ SocketConnect
    \/ JoinedStream
    \/ TransportDrop
    \/ ReconnectFail
    \/ \E t \in timers : HeartbeatTick(t)
    \/ InitializeAppLive
    \/ \E r \in {"allowed", "notfound", "denied", "neterr"} : CheckDeviceResponse(r)
    \/ \E r \in ValidateAnswers : ValidateAccessToken(r)
    \/ \E ok \in BOOLEAN : MarkTokenUsedLive(ok)
    \/ \E n \in 0..MaxLinks : InitializeVideoPlayerLive(n)
    \/ RetryTimerFires
    \/ \E k \in 1..Len(loads) : ManifestParsed(k)
    \/ \E k \in 1..Len(loads) : HlsFatalLive(k)
    \/ \E k \in 1..Len(loads) : LoadTimeout(k)
    \/ LoadedMetadata
    \/ VideoErrorLive

Spec == Init /\ [][Next]_vars

\* the chat transcript on its own: messages arrive at a page of any variant
NextChat == AddChatMessage

SpecChat == Init /\ [][NextChat]_vars

\* StreamingAPI on its own: any operation against any transport outcome
NextApi == \E op \in ApiOps, t \in Transports : ApiCall(op, t)

SpecApi == Init /\ [][NextApi]_vars

\* the viewer count on its own: events arrive, timers fire
NextViewers ==
    \/ \E c \in 0..MaxCount : ViewerCount(c)
    \/ ViewerTimerFires

SpecViewers == Init /\ [][NextViewers]_vars

\* seeking on its own: hls.liveSyncPosition is a number or not
NextSeek == \E d \in {"Infinity", "finite"}, liveSync \in BOOLEAN : Seek(d, liveSync)

SpecSeek == Init /\ [][NextSeek]_vars

\* the play button of part_001 on its own: the video element's events and
\* the play() calls in any order the element allows
NextPlay ==
    \/ \E by \in {"auto", "click"}, allowed \in BOOLEAN : PlayCall(by, allowed)
    \/ PlaySettles
    \/ OnCanPlay
    \/ OnWaiting
    \/ OnPlaying
    \/ OnPause
    \/ OnError

SpecPlay == Init /\ [][NextPlay]_vars


\* ------------------------------------------------------------ claims
\* C1: whatever loads ran, at most one Hls object that was not destroyed
\* exists (initHlsPlayer, initializeVideoPlayer, loadStream).
C1_AtMostOneLiveHls == Cardinality(LiveInstances) <= 1

\* a load replaced the Hls object of an earlier load
C1_Witness ==
    /\ Len(instances) >= 2
    /\ ~instances[1].live
    /\ instances[Len(instances)].live

\* C2: when loadStreamWithFailover of script.js or of part_002's first
\* script returns because a candidate plays after the ones before it
\* failed, that candidate is the current stream and the Hls object made for
\* it is the only live one.
C2_PlayingCandidateIsCurrent ==
    (/\ variant \in {"script", "part_002a"}
     /\ pc = "done" /\ ~tornDown
     /\ outcome # <<>> /\ outcome[Len(outcome)] = "playing")
    => /\ Len(outcome) = i + 1
       /\ \A k \in 1..i : outcome[k] \in {"probe", "error", "timeout"}
       /\ currentM3uLink = i + 1
       /\ LiveInstances \subseteq {hls}
       /\ (variant = "part_002a" \/ cap = "hlsjs")
            => /\ LiveInstances = {hls}
               /\ instances[hls].url = i + 1

\* the last of several candidates plays, through hls.js, after each of the
\* others was loaded and failed
C2_Witness ==
    /\ variant = "script" /\ cap = "hlsjs"
    /\ pc = "done" /\ ~tornDown
    /\ nLinks >= 2 /\ i = nLinks - 1
    /\ Len(instances) = nLinks
    /\ outcome[Len(outcome)] = "playing"

\* the candidates of the finished run all failed
AllCandidatesFailed ==
    /\ pc \in {"error", "done"}
    /\ nLinks > 0 /\ Len(outcome) = nLinks
    /\ \A k \in 1..nLinks :
          outcome[k] \in {"probe", "error"} \cup
                         (IF variant = "part_001" THEN {} ELSE {"timeout"})

\* C3: when every candidate fails, loadStreamWithFailover of script.js and
\* part_001 ends with exactly one showError call in total and with no Hls
\* object attached.
C3_OneErrorNoSession ==
    (variant \in {"script", "part_001"} /\ AllCandidatesFailed /\ ~tornDown)
    => showErrorCalls = 1 /\ LiveInstances = {}

PendingLoads == {k \in 1..Len(loads) : loads[k].status = "pending"}

\* C4: candidates are attempted strictly in list order, and no load begins
\* while the load of another candidate is unresolved (script.js and the
\* global script of part_002).
C4_InOrderOneAtATime ==
    variant \in {"script", "part_002b"}
    => /\ \A a, b \in 1..Len(attemptLog) : a < b => attemptLog[a] < attemptLog[b]
       /\ Cardinality(PendingLoads) <= 1

\* C5: while the failover loop runs, no listener of a candidate the loop
\* has left is still attached to the video element.
C5_SupersededDetached ==
    (variant \in IIFE /\ InRun) => \A l \in listeners : l.cand = i

\* C6: join_stream is emitted only on a connected socket, and a heartbeat
\* only after the server acknowledged the join on the current connection
\* (part_000 and script.js).
C6_HeartbeatAfterAck ==
    variant \in {"part_000", "script"}
    => /\ lastEmit.type = "join_stream" => lastEmit.connected
       /\ lastEmit.type = "heartbeat" => lastEmit.connected /\ lastEmit.acked

\* C7: part_000 has at most one heartbeat interval alive, and it is the one
\* this.heartbeatInterval holds.
C7_OneHeartbeatInterval ==
    variant = "part_000"
    => /\ Cardinality(timers) <= 1
       /\ \A t \in timers : t.id = heartbeatInterval

\* the page went hidden while the heartbeat ran: the 30 s interval replaced
\* the 15 s one
C7_Witness ==
    /\ variant = "part_000" /\ hidden
    /\ \E t \in timers : t.period = 30000

\* C8: while the socket is disconnected no heartbeat timer is alive.
C8_NoTimerWhileDisconnected ==
    (HasSocket /\ sock \in {"reconnecting", "failed", "closed"}) => timers = {}

\* the last n elements of a sequence
LastN(t, n) == SubSeq(t, Len(t) - n + 1, Len(t))

\* C9: in every variant the transcript never holds more than 100 messages
\* and the oldest are evicted first: it is the latest 100 arrivals in order.
C9_ChatCapFifo ==
    /\ Len(chat) <= ChatCap
    /\ chat = LastN([k \in 1..arrived |-> k], IF arrived < ChatCap THEN arrived ELSE ChatCap)

\* C10: once validate-token answered valid:false, the page shows the
\* backend's text (or the variant's literal fallback), and initialization
\* sends no mark-token-used, no get-m3u-links, loads no stream and opens no
\* socket.
C10_InvalidTokenStops ==
    (variant \in {"script", "part_000", "part_002b"} /\ invalidAnswer # "-")
    => /\ errorMessage = OrElse(invalidAnswer, FallbackInvalid(variant))
       /\ requests["mark"] = 0 /\ requests["links"] = 0
       /\ attemptLog = <<>>
       /\ openedBy # "init"


\* C11: a StreamingAPI operation never rejects, sends exactly one request
\* (to its own endpoint), and answers a network error, a non-2xx status or a
\* malformed body with its flag false and an error message.
C11_ApiNormalises ==
    apiCall.op # "none"
    => /\ ~apiCall.result.rejected
       /\ apiCall.result.fetches = <<EndpointOf(apiCall.op)>>
       /\ apiCall.transport.kind \in {"neterr", "status", "malformed"}
            => /\ apiCall.result.flag = FlagOf(apiCall.op)
               /\ ~apiCall.result.ok
               /\ apiCall.result.error # ""

\* checkDevice met a body that is not JSON
C11_Witness ==
    /\ apiCall.op = "checkDevice"
    /\ apiCall.transport.kind = "malformed"
    /\ apiCall.result.error = SyntaxErrorMsg


\* C12: in the state right after disconnect() returned (part_000's method,
\* window.streamingApp.disconnect of script.js and part_001) no socket is
\* connected, no heartbeat timer is alive and no Hls object is live.
C12_TeardownReleasesAll ==
    [][(variant \in {"part_000", "script", "part_001"} /\ (Disconnect0 \/ DisconnectIIFE))
       => (sock' # "connected" /\ timers' = {} /\ LiveInstances' = {})]_vars

\* C13: once part_000's disconnect() ran, the page holds no socket again:
\* nothing creates one, so nothing joins or starts a heartbeat.
C13_StaysDisconnected ==
    (variant = "part_000" /\ tornDown) => (~socket /\ timers = {})

\* C14: when initializeApp of script.js or of part_002's first script ended
\* in its error branch, no Hls object is live and no socket is open.
C14_ErrorBranchReleases ==
    (variant \in {"script", "part_002a"} /\ pc = "error")
    => /\ LiveInstances = {}
       /\ ~(socket /\ sock \notin {"none", "closed"})

\* C15: with neither hls.js nor native HLS, the first load fails at once
\* with the capability error, shown once; nothing waits for a timeout and no
\* further candidate is attempted (script.js, global script of part_002).
C15_CapabilityErrorTerminal ==
    (cap = "none" /\ variant \in {"script", "part_002b"} /\ attemptLog # <<>>)
    => /\ Len(attemptLog) = 1
       /\ pc # "wait" /\ retryTimers = 0
       /\ showErrorCalls = 1 /\ errorMessage = NoHlsMsg


\* C16: validateToken of script.js and part_001 sends at most 3 requests,
\* retries only after a network failure of the request, waits 1000 ms before
\* the 2nd attempt and 2000 ms before the 3rd, and gives up after the 3rd.
C16_BoundedRetry ==
    variant \in {"script", "part_001"}
    => /\ requests["validate"] <= MaxRetry + 1
       /\ \A k \in 1..Len(backoffs) :
             backoffs[k].ms = 1000 * k /\ backoffs[k].after = "neterr"
       /\ pc = "retry_wait" => retryCount < MaxRetry

\* C17: a valid:false answer is never retried, whatever its text:
\* validateToken throws at once and initialization ends in its error.
C17_ValidationNotRetried ==
    (variant \in {"script", "part_001"} /\ invalidAnswer # "-")
    => /\ pc = "error"
       /\ \A k \in 1..Len(backoffs) : backoffs[k].after \notin BackendTexts

\* the parts of the retry that do not depend on what is retried
BoundedBackoff ==
    variant \in {"script", "part_001"}
    => /\ requests["validate"] <= MaxRetry + 1
       /\ \A k \in 1..Len(backoffs) : backoffs[k].ms = 1000 * k
       /\ pc = "retry_wait" => retryCount < MaxRetry


\* C18: once every pending UI timer has run, the viewer count shown is the
\* count of the latest viewer-count event (part_000, script.js, part_001).
C18_ShowsLatestCount ==
    (variant \in {"part_000", "script", "part_001"} /\ lastCount >= 0 /\ uiTimers = <<>>)
    => displayed = lastCount


\* C19: the 'seeking' handler of part_000 and of part_002's global script
\* sends a seek on live media to the live edge and leaves a seek on media
\* of finite duration where the user put it.
C19_SeekPolicy ==
    variant \in {"part_000", "part_002b"}
    => /\ seek.duration = "Infinity" => seek.currentTime \in {"liveEdge", "seekableEnd"}
       /\ seek.duration = "finite" => seek.currentTime = "user"


\* sockets that exist and were not explicitly disconnected
OpenSockets ==
    Cardinality({st \in others : st # "closed"})
    + (IF sock \in {"none", "closed"} THEN 0 ELSE 1)

\* C20: whatever connectWebSocket / initSocket calls, transport drops,
\* reconnect attempts and 'online' events happened, at most one socket
\* exists that was not explicitly disconnected.
C20_OneChannel == HasSocket => OpenSockets <= 1

\* part_000's 'online' handler replaced a socket and the new one connected
C20_Witness ==
    /\ variant = "part_000" /\ openedBy = "online"
    /\ others # {}
    /\ socket /\ sock = "connected"


\* C21: in script.js, when a candidate before the last failed and a later
\* candidate plays, showError was not called during the failover run.
C21_FailoverSilent ==
    (/\ variant = "script" /\ pc = "done"
     /\ Len(outcome) >= 2 /\ outcome[Len(outcome)] = "playing")
    => showErrorCalls = 0


\* C22: a socket is created only after token validation succeeded, the link
\* list was fetched and a candidate reached 'playing' or 'canplay'
\* (initializeApp of script.js and part_001, validateTokenAndStart of
\* part_000, whose loadStream starts the first link and does not wait: there
\* the link must at least be loading).
C22_SocketAfterStream ==
    (variant \in {"script", "part_000", "part_001"} /\ socket /\ openedBy = "init")
    => /\ requests["validate"] > 0 /\ requests["links"] > 0
       /\ nLinks > 0
       /\ IF variant = "part_000"
          THEN attemptLog # <<>> /\ cap # "none"
          ELSE outcome # <<>> /\ outcome[Len(outcome)] \in {"playing", "canplay"}


\* C23: in part_000 every live heartbeat timer has the period 30000 ms
\* while the page is hidden and 15000 ms while it is visible.
C23_PeriodFollowsVisibility ==
    variant = "part_000"
    => \A t \in timers : t.period = IF hidden THEN 30000 ELSE 15000


\* C24: in script.js and in part_002's first script a candidate whose wait
\* ended by the timeout counts as failed: the loop went on to the next
\* candidate or, when it was the last, initializeApp ended with the
\* all-streams-failed error; the run never ends successfully on it.
C24_TimeoutRejects ==
    variant \in {"script", "part_002a"}
    => \A k \in 1..Len(outcome) :
          outcome[k] = "timeout"
          => /\ ~(pc = "done" /\ i = k - 1)
             /\ IF k = nLinks
                THEN pc = "error" /\ errorMessage = AllFailedMsg /\ ~socket
                ELSE i >= k

\* the first candidate timed out and the second one plays
C24_Witness ==
    /\ variant \in {"script", "part_002a"}
    /\ Len(outcome) = 2 /\ outcome[1] = "timeout" /\ outcome[2] = "playing"
    /\ pc = "done" /\ i = 1


\* C25: in part_001 a wait that ends by the 10 s timeout resolves: the loop
\* returns on that candidate and attempts no later one; and whatever the
\* link list, loadStreamWithFailover does not throw, so once the list was
\* fetched initializeApp never ends in its error branch and a finished run
\* has called initSocket.
C25_LenientTimeout ==
    variant = "part_001"
    => /\ \A k \in 1..Len(outcome) :
             outcome[k] = "timeout"
             => /\ k = Len(outcome) /\ pc = "done" /\ i = k - 1
                /\ Len(attemptLog) = k
       /\ nLinks > 0 => pc # "error"
       /\ pc = "done" => socket /\ openedBy = "init"

\* the first of several candidates timed out and the run is over
C25_Witness ==
    /\ variant = "part_001" /\ nLinks >= 2
    /\ outcome = <<"timeout">> /\ pc = "done" /\ socket


\* every candidate of a list of two or more was loaded by the global script
\* and every load was rejected; nothing is pending
AllLoadsRejected ==
    /\ variant = "part_002b" /\ nLinks >= 2
    /\ \A k \in 1..Len(loads) : loads[k].status = "rejected"
    /\ {loads[k].cand : k \in 1..Len(loads)} = 0..(nLinks - 1)
    /\ i >= nLinks /\ retryTimers = 0

\* C26: when every candidate of a list of two or more failed to load, the
\* chain of loadStreamWithFailover calls of part_002's global script has
\* stopped and exactly one terminal all-links-failed error was shown through
\* showError.
C26_TerminalErrorShown ==
    AllLoadsRejected
    => /\ showErrorCalls = 1
       /\ errorMessage \in {UnknownMsg, AllBrokenMsg}


\* C27: in part_000 a socket exists, and join_stream was emitted, only if
\* validate-token answered valid in this page session.
C27_SocketOnlyAfterValidation ==
    (variant = "part_000" /\ (socket \/ others # {} \/ lastEmit.type # "none"))
    => pc \in {"links", "done"}


\* the global script reported that every link failed
AllLinksFailedShown ==
    \/ errorMessage = AllBrokenMsg
    \/ errorMessage = UnknownMsg /\ nLinks > 0

\* C28: the global script of part_002 skips no candidate: a load never
\* begins more than one place after the load before it, and when the
\* all-links-failed error is reported every candidate 0..N-1 was attempted.
C28_NoCandidateSkipped ==
    variant = "part_002b"
    => /\ \A k \in 1..Len(attemptLog) :
             attemptLog[k] <= (IF k = 1 THEN 0 ELSE attemptLog[k - 1] + 1)
       /\ AllLinksFailedShown
             => {attemptLog[k] : k \in 1..Len(attemptLog)} = 0..(nLinks - 1)


\* C29: when the 15 s timeout of a loadStream call of part_002's global
\* script destroys an Hls object, that object is the one the same call
\* created.
C29_TimeoutDestroysOwn ==
    [][\A k \in 1..Len(loads) :
          (LoadTimeout(k) /\ instances' # instances) => hls = loads[k].inst]_vars


\* C30: in part_001 the play button is hidden whenever isPlaying is true,
\* whatever the order of 'canplay', 'playing', 'pause' and 'error'.
C30_NoButtonWhilePlaying ==
    (variant = "part_001" /\ isPlaying) => playButton = "none"

====
